---- MODULE Spec2Model ----
(***************************************************************************)
(* Model of the note-capture engine of audio-multisample (src/src/lib.rs): *)
(* NoteCaptureSettings, NoteCapturer::apply_config, the note derivation of *)
(* NoteCapturer::capture_notes, and NoteCapturer::capture_note_list with   *)
(* its two callbacks running on the audio device's thread.                 *)
(*                                                                         *)
(* Durations are whole milliseconds.  Samples are numbered in the order    *)
(* the device delivers them, stream errors in the order it reports them.   *)
(***************************************************************************)
EXTENDS Integers, Sequences, FiniteSets, TLC

\* ------------------------------------------------------------- bounds

\* Longest note list a modelled capture run works through.
MaxNotes == 3

\* Number of samples the device delivers over one run.
MaxDelivered == 4

\* Largest sample batch handed to one data-callback invocation.
MaxBatch == 2

\* Number of stream errors the device reports over one run.
MaxErrors == 2

\* Largest note value of the inputs of the note-derivation check.
MaxNoteValue == 9

\* Largest note spacing of the inputs of the note-derivation check.
MaxSpacing == 5

\* The MIDI channels 0..MaxChannelValue are all inputs of the message check.
MaxChannelValue == 17

\* ----------------------------------------------------------- settings

\* u8 arithmetic: `i as u8` keeps the low 8 bits.
U8(i) == i % 256

\* impl Default for NoteCaptureSettings.
Default ==
    [time_on |-> 20, time_release |-> 20, time_between |-> 1000,
     channels |-> 1, sample_rate |-> 44100, midi_channel |-> 1,
     note_on_velocity |-> 64, note_off_velocity |-> 64,
     first_note |-> 21, last_note |-> 108, note_spacing |-> 1]

\* num_samples: (sample_rate * channels) * (time_on + time_release + 0.01 s),
\* truncated by `as usize`.  The product is taken exactly here; the f32
\* product of the code truncates to the same number whenever the exact one
\* is not within rounding distance of a whole number.
num_samples(s) ==
    ((s.sample_rate * s.channels) * (s.time_on + s.time_release + 10)) \div 1000

\* A mutation of verify: the lower limit of the channel count is lost.
verify_NoLowerLimit(s) == ~(s.channels > 2)

\* A mutation of verify: a zero note spacing is rejected too.
verify_RejectsZeroSpacing(s) ==
    s.channels >= 1 /\ s.channels <= 2 /\ s.note_spacing /= 0

\* verify: false iff channels < 1 or channels > 2.
verify(s) == IF s.channels < 1 \/ s.channels > 2 THEN FALSE ELSE TRUE

\* The candidate settings offered to apply_config: channel counts around
\* the accepted ones, a short capture window at a low sample rate (exact
\* products 1.2 and 2.4, so caps of 1 and 2 samples), and note ranges that derive 0 to 4 notes.
Candidates ==
    { [Default EXCEPT !.channels = ch, !.sample_rate = 40,
                      !.time_on = 10, !.time_release = 10, !.time_between = 10,
                      !.first_note = f, !.last_note = l, !.note_spacing = sp] :
        ch \in 0..3, f \in {60, 61}, l \in {60, 63}, sp \in {0, 1, 2} }

\* -------------------------------------------------------- note derivation

\* (first_note..=last_note).enumerate(): the pairs (i, n), i from 0.
Enumerate(first, last) ==
    IF first > last THEN << >>
    ELSE [k \in 1..(last - first + 1) |-> [i |-> k - 1, n |-> first + k - 1]]

\* A mutation of KeepNote: the stride is tested on the note number.
KeepNote_ByNoteValue(p, spacing) == U8(p.n) % spacing = 0

\* The filter of capture_notes: keep (i, n) when i as u8 % note_spacing == 0.
KeepNote(p, spacing) == U8(p.i) % spacing = 0

\* A mutation of PushLast: the last note is never appended.
PushLast_Never(ns, last) == ns

\* A mutation of PushLast: the emptiness test is lost.
PushLast_Always(ns, last) ==
    IF Len(ns) > 0 /\ ns[Len(ns)] = last THEN ns ELSE Append(ns, last)

\* Lines 137-141: append last_note unless the list is empty or ends with it.
PushLast(ns, last) ==
    IF Len(ns) > 0
    THEN IF ns[Len(ns)] /= last THEN Append(ns, last) ELSE ns
    ELSE ns

\* The remainder by zero panics as soon as the filter sees one element.
DerivePanics(s) ==
    s.first_note <= s.last_note /\ s.note_spacing = 0

\* The note list capture_notes hands to capture_note_list (when it does
\* not panic).
DeriveNotes(s) ==
    LET pairs == Enumerate(s.first_note, s.last_note)
        kept  == SelectSeq(pairs, LAMBDA p : KeepNote(p, s.note_spacing))
        ns    == [k \in 1..Len(kept) |-> kept[k].n]
    IN  PushLast(ns, s.last_note)

\* ------------------------------------------------------------- messages

\* a & b on unsigned integers, bit by bit.
RECURSIVE BitAnd(_, _)
BitAnd(a, b) ==
    IF a = 0 \/ b = 0 THEN 0
    ELSE (a % 2) * (b % 2) + 2 * BitAnd(a \div 2, b \div 2)

\* a | b on unsigned integers, bit by bit.
RECURSIVE BitOr(_, _)
BitOr(a, b) ==
    IF a = 0 THEN b
    ELSE IF b = 0 THEN a
    ELSE (IF a % 2 = 1 \/ b % 2 = 1 THEN 1 ELSE 0)
         + 2 * BitOr(a \div 2, b \div 2)

\* A mutation of midi_note_on_message: the channel is not masked.
midi_note_on_message_NoMask(channel, note, velocity) ==
    << BitOr(144, channel), note, velocity >>

\* midi_note_on_message: [0x90 | (channel & 0xF), note, velocity]
midi_note_on_message(channel, note, velocity) ==
    << BitOr(144, BitAnd(channel, 15)), note, velocity >>

\* midi_note_off_message: [0x80 | (channel & 0xF), note, velocity]
midi_note_off_message(channel, note, velocity) ==
    << BitOr(128, BitAnd(channel, 15)), note, velocity >>

\* Lines 198-202: the note-on message sent for note n under settings s.
NoteOnMsg(s, n) ==
    midi_note_on_message(s.midi_channel, n, s.note_on_velocity)

\* Lines 205-209: the note-off message sent for note n under settings s.
NoteOffMsg(s, n) ==
    midi_note_off_message(s.midi_channel, n, s.note_off_velocity)

\* ---------------------------------------------------------------- state

VARIABLES
    settings,           \* NoteCapturer.settings
    config,             \* << argument of the last apply_config call >>, or NoArg
    ret,                \* what that call returned, or NoCall
    pc,                 \* position of the controller thread
    notes,              \* the note list of the run
    idx,                \* 1-based index of the loop's current note
    max_size,           \* capture_note_list's max_size
    buffer,             \* contents of the shared capture buffer
    bufLock,            \* holder of the buffer mutex: "free", "ctl", "cb"
    note_buffers,       \* the result list being accumulated
    error,              \* the error slot: 0 is None, e > 0 is Some(e)
    errorRefs,          \* strong count of the error slot's Arc
    total_num_samples,  \* the counter captured by data_callback
    stream,             \* "none", "paused", "playing", "dropped"
    cbpc,               \* position of the data callback: "idle", "wait", "locked"
    cbBatch,            \* samples of the current batch not yet looked at
    delivered,          \* samples the device has delivered so far
    reported,           \* stream errors the device has reported so far
    ops,                \* the controller's operations so far, in order
    result,             \* outcome of the run
    appended,           \* history: the samples the callback appended in this
                        \* run, in order, each with the loop's note index and
                        \* whether it fell between that note's clear and swap
    nfirst, nlast, nspacing,  \* note-derivation check: the inputs
    nstate,             \* ... "input", "derived" or "panicked"
    nout,               \* ... the derived note list
    mnote,              \* message check: the note of the iteration
    mstate,             \* ... "input" or "sent"
    mout                \* ... << note-on message, note-off message >>

vars ==
    << settings, config, ret, pc, notes, idx, max_size, buffer, bufLock,
       note_buffers, error, errorRefs, total_num_samples, stream, cbpc,
       cbBatch, delivered, reported, ops, result, appended,
       nfirst, nlast, nspacing, nstate, nout, mnote, mstate, mout >>

runVars ==
    << pc, notes, idx, max_size, buffer, bufLock, note_buffers, error,
       errorRefs, total_num_samples, stream, cbpc, cbBatch, delivered,
       reported, ops, result, appended >>

deriveVars == << nfirst, nlast, nspacing, nstate, nout >>

msgVars == << mnote, mstate, mout >>

NoCall == "no-call"

NoArg == << >>

NoResult == [tag |-> "None", kind |-> "", err |-> 0, samples |-> << >>]

Ok(bufs) == [tag |-> "Ok", kind |-> "", err |-> 0, samples |-> bufs]

Err(kind, e) == [tag |-> "Err", kind |-> kind, err |-> e, samples |-> << >>]

Panic(msg) == [tag |-> "Panic", kind |-> msg, err |-> 0, samples |-> << >>]

\* NoteCapturer::new: the default settings, no run in progress.
Init ==
    /\ settings = Default
    /\ config = NoArg
    /\ ret = NoCall
    /\ pc = "idle"
    /\ notes = << >>
    /\ idx = 0
    /\ max_size = 0
    /\ buffer = << >>
    /\ bufLock = "free"
    /\ note_buffers = << >>
    /\ error = 0
    /\ errorRefs = 0
    /\ total_num_samples = 0
    /\ stream = "none"
    /\ cbpc = "idle"
    /\ cbBatch = << >>
    /\ delivered = 0
    /\ reported = 0
    /\ ops = << >>
    /\ result = NoResult
    /\ appended = << >>
    /\ nfirst = 0 /\ nlast = 0 /\ nspacing = 1
    /\ nstate = "input" /\ nout = << >>
    /\ mnote = 0 /\ mstate = "input" /\ mout = << >>

\* ------------------------------------------------------- apply_config

Unit == "unit"

\* A mutation of apply_config: the candidate is stored without verify.
apply_config_Unchecked(c) ==
    /\ pc = "idle"
    /\ settings' = c
    /\ config' = << c >>
    /\ ret' = Unit
    /\ UNCHANGED << runVars, deriveVars, msgVars >>

\* apply_config(&mut self, config): store a clone of the candidate when it
\* verifies; the function has no return value.
apply_config(c) ==
    /\ pc = "idle"
    /\ settings' = IF verify(c) THEN c ELSE settings
    /\ config' = << c >>
    /\ ret' = Unit
    /\ UNCHANGED << runVars, deriveVars, msgVars >>

\* ------------------------------------------------------ the controller

StreamAlive == stream \in {"built", "playing", "paused"}

Op(name, msg, ok) == [op |-> name, msg |-> msg, ok |-> ok]

\* Leaving capture_note_list: the locals are dropped, the stream with them,
\* and a buffer guard the controller still holds is released.
Return(r) ==
    /\ pc' = "done"
    /\ result' = r
    /\ stream' = IF stream = "none" THEN "none" ELSE "dropped"
    /\ bufLock' = IF bufLock = "ctl" THEN "free" ELSE bufLock

\* capture_notes (lines 126-143) and the prologue of capture_note_list
\* (lines 152-181): derive the notes, size the cap, create the buffer, the
\* result list, the error slot with its clone, and the callback's counter.
capture_notes ==
    /\ pc = "idle"
    /\ IF DerivePanics(settings)
       THEN /\ Return(Panic("remainder by zero"))
            /\ UNCHANGED << notes, idx, max_size, buffer, note_buffers, error,
                            errorRefs, total_num_samples, appended >>
       ELSE /\ Len(DeriveNotes(settings)) <= MaxNotes
            /\ notes' = DeriveNotes(settings)
            /\ idx' = 1
            /\ max_size' = num_samples(settings)
            /\ buffer' = << >>
            /\ note_buffers' = << >>
            /\ error' = 0
            /\ errorRefs' = 2
            /\ total_num_samples' = 0
            /\ appended' = << >>
            /\ pc' = "build"
            /\ UNCHANGED << result, stream, bufLock >>
    /\ config' = NoArg
    /\ ret' = NoCall
    /\ UNCHANGED << settings, cbpc, cbBatch, delivered, reported, ops,
                    deriveVars, msgVars >>

\* Lines 157-161, 183-188: build_input_stream_raw(&in_config, ...)? with
\* the settings' channels and sample rate.  The stream takes both closures;
\* a failed build drops them.
build_stream ==
    /\ pc = "build"
    /\ \E ok \in BOOLEAN :
         /\ ops' = Append(ops, Op("build", << settings.channels,
                                              settings.sample_rate >>, ok))
         /\ IF ok
            THEN /\ stream' = "built"
                 /\ pc' = "clear"
                 /\ UNCHANGED << result, bufLock, errorRefs >>
            ELSE /\ errorRefs' = 1
                 /\ Return(Err("BuildStream", 0))
    /\ UNCHANGED << settings, config, ret, notes, idx, max_size, buffer,
                    note_buffers, error, total_num_samples, cbpc, cbBatch,
                    delivered, reported, appended, deriveVars, msgVars >>

\* A mutation of loop_done: the error slot is read once more when the
\* loop is over.
loop_done_ChecksError ==
    /\ pc = "clear"
    /\ idx > Len(notes)
    /\ Return(IF error /= 0 THEN Err("Stream", error) ELSE Ok(note_buffers))
    /\ UNCHANGED << settings, config, ret, notes, idx, max_size, buffer,
                    note_buffers, error, errorRefs, total_num_samples, cbpc,
                    cbBatch, delivered, reported, ops, appended, deriveVars,
                    msgVars >>

\* Line 190 with no note left, line 229: Ok(note_buffers).
loop_done ==
    /\ pc = "clear"
    /\ idx > Len(notes)
    /\ Return(Ok(note_buffers))
    /\ UNCHANGED << settings, config, ret, notes, idx, max_size, buffer,
                    note_buffers, error, errorRefs, total_num_samples, cbpc,
                    cbBatch, delivered, reported, ops, appended, deriveVars,
                    msgVars >>

\* A mutation of clear_buffer: the buffer is reserved but not cleared.
clear_buffer_NoClear ==
    /\ pc = "clear"
    /\ idx <= Len(notes)
    /\ bufLock = "free"
    /\ buffer' = buffer
    /\ pc' = "note_on"
    /\ UNCHANGED << settings, config, ret, notes, idx, max_size, bufLock,
                    note_buffers, error, errorRefs, total_num_samples, stream,
                    cbpc, cbBatch, delivered, reported, ops, result, appended,
                    deriveVars, msgVars >>

\* Lines 191-195: lock the buffer, clear it, reserve, unlock.
clear_buffer ==
    /\ pc = "clear"
    /\ idx <= Len(notes)
    /\ bufLock = "free"
    /\ buffer' = << >>
    /\ pc' = "note_on"
    /\ UNCHANGED << settings, config, ret, notes, idx, max_size, bufLock,
                    note_buffers, error, errorRefs, total_num_samples, stream,
                    cbpc, cbBatch, delivered, reported, ops, result, appended,
                    deriveVars, msgVars >>

\* What a controller step that touches neither the buffer nor the slot
\* leaves alone.
CtlFrame ==
    UNCHANGED << settings, config, ret, notes, idx, max_size, buffer,
                 note_buffers, error, errorRefs, total_num_samples, cbpc,
                 cbBatch, delivered, reported, appended, deriveVars,
                 msgVars >>

\* A mutation of Step: the failure is logged and the run goes on.
Step_IgnoreFailure(at, name, msg, next, st, kind) ==
    /\ pc = at
    /\ \E ok \in BOOLEAN :
         /\ ops' = Append(ops, Op(name, msg, ok))
         /\ pc' = next
         /\ stream' = st
         /\ UNCHANGED << result, bufLock >>
    /\ CtlFrame

\* A fallible step `name` at position `at`: on success go to `next` with
\* the stream in state `st`, on failure return Err(kind).
Step(at, name, msg, next, st, kind) ==
    /\ pc = at
    /\ \E ok \in BOOLEAN :
         /\ ops' = Append(ops, Op(name, msg, ok))
         /\ IF ok
            THEN /\ pc' = next
                 /\ stream' = st
                 /\ UNCHANGED << result, bufLock >>
            ELSE Return(Err(kind, 0))
    /\ CtlFrame

\* A sleep at position `at`.
Sleep(at, dur, next) ==
    /\ pc = at
    /\ ops' = Append(ops, Op("sleep", << dur >>, TRUE))
    /\ pc' = next
    /\ UNCHANGED << result, bufLock, stream >>
    /\ CtlFrame

\* A mutation of note_on: every note-on carries the first note.
note_on_FirstNote ==
    Step("note_on", "note_on", NoteOnMsg(settings, notes[1]),
         "play", stream, "MidiSend")

\* Lines 198-202: midi.send(note on)?
note_on ==
    Step("note_on", "note_on", NoteOnMsg(settings, notes[idx]),
         "play", stream, "MidiSend")

\* Line 203: stream.play()?
play ==
    Step("play", "play", << >>, "sleep_on", "playing", "PlayStream")

\* Line 204: sleep(time_on)
sleep_on ==
    Sleep("sleep_on", "time_on", "note_off")

\* Lines 205-209: midi.send(note off)?
note_off ==
    Step("note_off", "note_off", NoteOffMsg(settings, notes[idx]),
         "sleep_release", stream, "MidiSend")

\* Line 210: sleep(time_release)
sleep_release ==
    Sleep("sleep_release", "time_release", "pause")

\* Line 211: stream.pause()?
pause ==
    Step("pause", "pause", << >>, "check", "paused", "PauseStream")

\* Lines 214-218: if the slot is set, take it out of its Arc and return
\* Err(Stream(e)).  Arc::try_unwrap succeeds only for the last strong
\* reference; otherwise expect("should be no lock") panics.
check_error ==
    /\ pc = "check"
    /\ IF error /= 0
       THEN IF errorRefs = 1
            THEN Return(Err("Stream", error))
            ELSE Return(Panic("should be no lock"))
       ELSE /\ pc' = "swap"
            /\ UNCHANGED << result, stream, bufLock >>
    /\ UNCHANGED ops
    /\ CtlFrame

\* A mutation of swap_out: the drained buffer is not pushed.
swap_out_NoPush ==
    /\ pc = "swap"
    /\ bufLock = "free"
    /\ bufLock' = "ctl"
    /\ buffer' = << >>
    /\ note_buffers' = note_buffers
    /\ pc' = "sleep_between"
    /\ UNCHANGED << settings, config, ret, notes, idx, max_size, error,
                    errorRefs, total_num_samples, stream, cbpc, cbBatch,
                    delivered, reported, ops, result, appended, deriveVars,
                    msgVars >>

\* Lines 221-225: lock the buffer, swap its contents with an empty vector,
\* push what was swapped out.  The guard raw_buf lives on to the end of
\* the loop body.
swap_out ==
    /\ pc = "swap"
    /\ bufLock = "free"
    /\ bufLock' = "ctl"
    /\ buffer' = << >>
    /\ note_buffers' = Append(note_buffers, buffer)
    /\ pc' = "sleep_between"
    /\ UNCHANGED << settings, config, ret, notes, idx, max_size, error,
                    errorRefs, total_num_samples, stream, cbpc, cbBatch,
                    delivered, reported, ops, result, appended, deriveVars,
                    msgVars >>

\* A mutation of sleep_between: no sleep after the last note.
sleep_between_SkipLast ==
    /\ pc = "sleep_between"
    /\ ops' = IF idx < Len(notes)
              THEN Append(ops, Op("sleep", << "time_between" >>, TRUE))
              ELSE ops
    /\ bufLock' = "free"
    /\ idx' = idx + 1
    /\ pc' = "clear"
    /\ UNCHANGED << settings, config, ret, notes, max_size, buffer,
                    note_buffers, error, errorRefs, total_num_samples, stream,
                    cbpc, cbBatch, delivered, reported, result, appended,
                    deriveVars, msgVars >>

\* Lines 226-227: sleep(time_between), then the loop body ends: raw_buf is
\* dropped and the loop moves to the next note.
sleep_between ==
    /\ pc = "sleep_between"
    /\ ops' = Append(ops, Op("sleep", << "time_between" >>, TRUE))
    /\ bufLock' = "free"
    /\ idx' = idx + 1
    /\ pc' = "clear"
    /\ UNCHANGED << settings, config, ret, notes, max_size, buffer,
                    note_buffers, error, errorRefs, total_num_samples, stream,
                    cbpc, cbBatch, delivered, reported, result, appended,
                    deriveVars, msgVars >>

\* The caller takes the outcome; the capturer is idle again.  A panic
\* ends the program instead.
finish ==
    /\ pc = "done"
    /\ result.tag /= "Panic"
    /\ pc' = "idle"
    /\ notes' = << >>
    /\ idx' = 0
    /\ max_size' = 0
    /\ buffer' = << >>
    /\ bufLock' = "free"
    /\ note_buffers' = << >>
    /\ error' = 0
    /\ errorRefs' = 0
    /\ total_num_samples' = 0
    /\ stream' = "none"
    /\ cbpc' = "idle"
    /\ cbBatch' = << >>
    /\ delivered' = 0
    /\ reported' = 0
    /\ ops' = << >>
    /\ result' = NoResult
    /\ appended' = << >>
    /\ UNCHANGED << settings, config, ret, deriveVars, msgVars >>

\* ------------------------------------------------- the device's thread

\* What the callbacks leave alone.
CbFrame ==
    UNCHANGED << settings, config, ret, pc, notes, idx, max_size,
                 note_buffers, errorRefs, stream, ops, result, deriveVars, msgVars >>

\* A mutation of append_bounded: the counter restarts with every buffer,
\* so the cap applies to each note's buffer.
RECURSIVE append_bounded_PerNote(_, _, _, _)
append_bounded_PerNote(buf, total, batch, max) ==
    IF batch = << >> \/ Len(buf) >= max
    THEN [buf |-> buf, total |-> Len(buf)]
    ELSE append_bounded_PerNote(Append(buf, Head(batch)), total + 1,
                                Tail(batch), max)

\* A mutation of append_bounded: the cap is not looked at.
RECURSIVE append_bounded_NoCap(_, _, _, _)
append_bounded_NoCap(buf, total, batch, max) ==
    IF batch = << >>
    THEN [buf |-> buf, total |-> total]
    ELSE append_bounded_NoCap(Append(buf, Head(batch)), total + 1,
                              Tail(batch), max)

\* Lines 174-180: the loop of data_callback over the batch; it stops at
\* the first sample that finds total_num_samples >= max_size.
RECURSIVE append_bounded(_, _, _, _)
append_bounded(buf, total, batch, max) ==
    IF batch = << >> \/ total >= max
    THEN [buf |-> buf, total |-> total]
    ELSE append_bounded(Append(buf, Head(batch)), total + 1, Tail(batch), max)

\* The controller positions after the clear of the current note and before
\* its swap.
WindowPcs ==
    {"note_on", "play", "sleep_on", "note_off", "sleep_release", "pause",
     "check", "swap"}

\* History entries for samples appended now.
Stamp(samples) ==
    [k \in 1..Len(samples) |->
        [s |-> samples[k], note |-> idx, within |-> pc \in WindowPcs]]

\* The device calls data_callback with a batch of n samples.
data_callback_begin ==
    /\ StreamAlive
    /\ cbpc = "idle"
    /\ \E n \in 1..MaxBatch :
         /\ delivered + n <= MaxDelivered
         /\ cbBatch' = [k \in 1..n |-> delivered + k]
         /\ delivered' = delivered + n
    /\ cbpc' = "wait"
    /\ UNCHANGED << buffer, bufLock, error, total_num_samples, reported,
                    appended >>
    /\ CbFrame

\* Line 173: b2.lock()
data_callback_lock ==
    /\ StreamAlive
    /\ cbpc = "wait"
    /\ bufLock = "free"
    /\ bufLock' = "cb"
    /\ cbpc' = "locked"
    /\ UNCHANGED << buffer, error, total_num_samples, cbBatch, delivered,
                    reported, appended >>
    /\ CbFrame

\* Lines 174-181: the loop over the batch, then the guard is dropped.
data_callback_run ==
    /\ StreamAlive
    /\ cbpc = "locked"
    /\ LET r == append_bounded(buffer, total_num_samples, cbBatch, max_size)
       IN  /\ buffer' = r.buf
           /\ total_num_samples' = r.total
           /\ appended' = appended \o Stamp(SubSeq(r.buf, Len(buffer) + 1,
                                                    Len(r.buf)))
    /\ cbBatch' = << >>
    /\ bufLock' = "free"
    /\ cbpc' = "idle"
    /\ UNCHANGED << error, delivered, reported >>
    /\ CbFrame

\* A mutation of error_callback: a slot that is set is left as it is.
error_callback_FirstWins ==
    /\ StreamAlive
    /\ reported < MaxErrors
    /\ reported' = reported + 1
    /\ error' = IF error = 0 THEN reported + 1 ELSE error
    /\ UNCHANGED << buffer, bufLock, total_num_samples, cbpc, cbBatch,
                    delivered, appended >>
    /\ CbFrame

\* Lines 165-167: the device reports a stream error; the slot takes it.
error_callback ==
    /\ StreamAlive
    /\ reported < MaxErrors
    /\ reported' = reported + 1
    /\ error' = reported + 1
    /\ UNCHANGED << buffer, bufLock, total_num_samples, cbpc, cbBatch,
                    delivered, appended >>
    /\ CbFrame

\* ----------------------------------------------------- specifications

Next ==
    \/ \E c \in Candidates : apply_config(c)
    \/ capture_notes
    \/ build_stream
    \/ loop_done
    \/ clear_buffer
    \/ note_on
    \/ play
    \/ sleep_on
    \/ note_off
    \/ sleep_release
    \/ pause
    \/ check_error
    \/ swap_out
    \/ sleep_between
    \/ finish
    \/ data_callback_begin
    \/ data_callback_lock
    \/ data_callback_run
    \/ error_callback

Spec == Init /\ [][Next]_vars

\* The inputs of the note-derivation check: low and high note values, the
\* piano range 21..108, all spacings up to MaxSpacing, an octave and the
\* largest u8.
NoteInputs == (0..MaxNoteValue) \cup {21, 108, 254, 255}

SpacingInputs == (0..MaxSpacing) \cup {12, 255}

DeriveInit ==
    /\ settings = Default
    /\ config = NoArg
    /\ ret = NoCall
    /\ pc = "idle"
    /\ notes = << >>
    /\ idx = 0
    /\ max_size = 0
    /\ buffer = << >>
    /\ bufLock = "free"
    /\ note_buffers = << >>
    /\ error = 0
    /\ errorRefs = 0
    /\ total_num_samples = 0
    /\ stream = "none"
    /\ cbpc = "idle"
    /\ cbBatch = << >>
    /\ delivered = 0
    /\ reported = 0
    /\ ops = << >>
    /\ result = NoResult
    /\ appended = << >>
    /\ nfirst \in NoteInputs
    /\ nlast \in NoteInputs
    /\ nspacing \in SpacingInputs
    /\ nstate = "input"
    /\ nout = << >>
    /\ mnote = 0 /\ mstate = "input" /\ mout = << >>

\* Lines 126-141 on the inputs (nfirst, nlast, nspacing).
derive ==
    /\ nstate = "input"
    /\ LET s == [first_note |-> nfirst, last_note |-> nlast,
                 note_spacing |-> nspacing]
       IN  IF DerivePanics(s)
           THEN nstate' = "panicked" /\ nout' = << >>
           ELSE nstate' = "derived" /\ nout' = DeriveNotes(s)
    /\ UNCHANGED << settings, config, ret, runVars, nfirst, nlast, nspacing,
                    msgVars >>

DeriveNext == derive

DeriveSpec == DeriveInit /\ [][DeriveNext]_vars

\* The inputs of the message check: every channel around the 4-bit limit
\* and channels with high bits set; notes and velocities at the ends and
\* the middle of the u8 range.
ChannelInputs == (0..MaxChannelValue) \cup {31, 32, 64, 127, 128, 240, 255}

ByteInputs == {0, 60, 64, 127, 128, 255}

MsgSettings ==
    { [Default EXCEPT !.midi_channel = c, !.note_on_velocity = von,
                      !.note_off_velocity = voff] :
        c \in ChannelInputs, von \in ByteInputs, voff \in ByteInputs }

MsgInit ==
    /\ settings \in MsgSettings
    /\ config = NoArg
    /\ ret = NoCall
    /\ pc = "idle"
    /\ notes = << >>
    /\ idx = 0
    /\ max_size = 0
    /\ buffer = << >>
    /\ bufLock = "free"
    /\ note_buffers = << >>
    /\ error = 0
    /\ errorRefs = 0
    /\ total_num_samples = 0
    /\ stream = "none"
    /\ cbpc = "idle"
    /\ cbBatch = << >>
    /\ delivered = 0
    /\ reported = 0
    /\ ops = << >>
    /\ result = NoResult
    /\ appended = << >>
    /\ nfirst = 0 /\ nlast = 0 /\ nspacing = 1
    /\ nstate = "input" /\ nout = << >>
    /\ mnote \in ByteInputs
    /\ mstate = "input"
    /\ mout = << >>

\* Lines 198-202 and 205-209: the two messages of the iteration for note
\* mnote, built from the settings.
send_messages ==
    /\ mstate = "input"
    /\ mout' = << NoteOnMsg(settings, mnote), NoteOffMsg(settings, mnote) >>
    /\ mstate' = "sent"
    /\ UNCHANGED << settings, config, ret, runVars, deriveVars, mnote >>

MsgNext == send_messages

MsgSpec == MsgInit /\ [][MsgNext]_vars

\* =============================================================== claims

RunPcs ==
    {"build", "clear", "note_on", "play", "sleep_on", "note_off",
     "sleep_release", "pause", "check", "swap", "sleep_between", "done"}

\* The samples held by the sequences of a result list, in order.
RECURSIVE Flatten(_)
Flatten(bufs) ==
    IF bufs = << >> THEN << >> ELSE Head(bufs) \o Flatten(Tail(bufs))

StrictlyIncreasing(s) ==
    \A a, b \in 1..Len(s) : a < b => s[a] < s[b]

\* C1: a run in which no step fails returns exactly one sample sequence per
\* note, the i-th being the buffer as drained by the swap of iteration i:
\* the swap of iteration i appends the buffer's contents as entry i, no
\* other step of a run changes the list, the list is returned as it stands,
\* and no sample is in two entries or out of delivery order.
C1_OneEntryPerNoteInOrder ==
    /\ [](pc = "done" /\ result.tag = "Ok"
            => /\ Len(result.samples) = Len(notes)
               /\ result.samples = note_buffers
               /\ StrictlyIncreasing(Flatten(result.samples)))
    /\ [][ IF pc = "swap" /\ pc' = "sleep_between"
           THEN /\ Len(note_buffers) = idx - 1
                /\ note_buffers' = Append(note_buffers, buffer)
           ELSE (pc \in RunPcs /\ pc' \in RunPcs)
                => note_buffers' = note_buffers ]_vars

\* C1 witness: a successful run over two notes, each with samples.
C1_Witness ==
    /\ pc = "done" /\ result.tag = "Ok"
    /\ Len(notes) = 2
    /\ result.samples[1] /= << >>
    /\ result.samples[2] /= << >>

\* The run ended at the error check of line 214: the last operation is a
\* pause that succeeded.
EndedAtCheck ==
    /\ pc = "done"
    /\ Len(ops) > 0
    /\ ops[Len(ops)] = Op("pause", << >>, TRUE)

\* C2: when the controller finds a stored stream error at the check after a
\* note's pause, the call returns Err(CaptureError::Stream(e)) with e the
\* stored error, with no entry for that note.
C2_StreamErrorReturned ==
    EndedAtCheck => /\ error /= 0
                    /\ result = Err("Stream", error)
                    /\ Len(note_buffers) = idx - 1

\* C3: the shared buffer, every drained sequence and every returned
\* sequence hold at most num_samples() samples.
C3_CapBoundsBuffer ==
    pc \in RunPcs =>
        /\ Len(buffer) <= num_samples(settings)
        /\ \A i \in 1..Len(note_buffers) :
               Len(note_buffers[i]) <= num_samples(settings)
        /\ \A i \in 1..Len(result.samples) :
               Len(result.samples[i]) <= num_samples(settings)

\* C3 witness: the buffer is full and the device has delivered, and the
\* callback has worked through, more samples than the cap.
C3_Witness ==
    /\ pc \in RunPcs
    /\ num_samples(settings) > 0
    /\ Len(buffer) = num_samples(settings)
    /\ delivered > num_samples(settings)
    /\ cbpc = "idle"

EmptyRange == settings.first_note > settings.last_note

\* C4 as stated: with first_note > last_note the run touches no device (no
\* stream is built, played or paused, no message is sent) and returns the
\* empty successful result.
C4_NoDeviceInteraction ==
    (pc \in RunPcs /\ EmptyRange) =>
        /\ ops = << >>
        /\ stream = "none"
        /\ pc = "done" => result = Ok(<< >>)

\* C4 amended: with first_note > last_note the derived list is empty and
\* the run's only operation is the one stream build: no message, no play,
\* no pause, no sleep; it returns the empty successful result when the
\* build succeeds and Err(BuildStream) when it fails.
C4_EmptyRangeOnlyBuilds ==
    (pc \in RunPcs /\ EmptyRange) =>
        /\ notes = << >>
        /\ \A k \in 1..Len(ops) : k = 1 /\ ops[k].op = "build"
        /\ pc = "done" =>
              /\ Len(ops) = 1
              /\ result = IF ops[1].ok THEN Ok(<< >>)
                                        ELSE Err("BuildStream", 0)

\* C4 witness: a run over an empty range has returned the empty result.
C4_Witness ==
    /\ pc = "done" /\ EmptyRange
    /\ result = Ok(<< >>)
    /\ Len(ops) = 1

\* C5: for first_note <= last_note and note_spacing >= 1 the derivation
\* yields a list (it does not panic) that is non-empty, starts with
\* first_note and ends with last_note.
C5_FirstAndLastNote ==
    (nstate /= "input" /\ nfirst <= nlast /\ nspacing >= 1) =>
        /\ nstate = "derived"
        /\ nout /= << >>
        /\ nout[1] = nfirst
        /\ nout[Len(nout)] = nlast

\* C5 witness: a derived list whose stride does not land on last_note.
C5_Witness ==
    /\ nstate = "derived"
    /\ nfirst < nlast
    /\ nspacing >= 1
    /\ (nlast - nfirst) % nspacing /= 0
    /\ Len(nout) >= 3

\* C6: an apply_config call stores its candidate, whole, iff the
\* candidate's channel count is 1 or 2, and otherwise leaves the settings
\* as they were; nothing else changes the settings; so they are always the
\* default or an offered candidate with 1 or 2 channels, and a run sizes
\* its cap and configures its stream with the active channel count.
C6_SettingsFollowValidCandidates ==
    /\ [][ IF pc = "idle" /\ pc' = "idle" /\ config' /= NoArg
           THEN settings' = IF config'[1].channels \in {1, 2}
                            THEN config'[1] ELSE settings
           ELSE settings' = settings ]_vars
    /\ [](\/ settings = Default
          \/ settings \in Candidates /\ settings.channels \in {1, 2})
    /\ [](pc \in RunPcs /\ result.tag /= "Panic"
            => /\ max_size = (settings.sample_rate * settings.channels
                               * (settings.time_on + settings.time_release + 10))
                              \div 1000
               /\ ops /= << >> => ops[1].msg[1] = settings.channels)

\* C6 witness: stereo settings were accepted, and a later candidate with a
\* channel count outside {1, 2} has been offered.
C6_Witness ==
    /\ pc = "idle"
    /\ config /= NoArg
    /\ config[1].channels \in {0, 3}
    /\ settings.channels = 2

\* C7 as stated: apply_config returns true exactly when it accepted the
\* candidate and false exactly when it declined it.
C7_ReturnsAcceptance ==
    config /= NoArg =>
        ret = IF config[1].channels \in {1, 2} THEN "true" ELSE "false"

\* C7 amended: apply_config returns no value, whether it accepts or
\* declines; the outcome shows only in the settings, which equal the
\* candidate after the call exactly when its channel count is 1 or 2.
C7_ReturnsNothing ==
    config /= NoArg =>
        /\ ret = Unit
        /\ (settings = config[1]) <=> (config[1].channels \in {1, 2})

\* C7 witness: a declined candidate, and nothing returned.
C7_Witness ==
    /\ config /= NoArg
    /\ config[1].channels \notin {1, 2}
    /\ ret = Unit
    /\ settings /= config[1]

\* The CaptureError a failing operation maps to.
KindOf(op) ==
    CASE op = "build" -> "BuildStream"
      [] op = "note_on" -> "MidiSend"
      [] op = "note_off" -> "MidiSend"
      [] op = "play" -> "PlayStream"
      [] op = "pause" -> "PauseStream"
      [] OTHER -> "?"

\* C8: a failed build, send, play or pause is the last operation of the
\* run: the call is over, the stream is gone, the result is the error of
\* the matching kind, and the result carries no samples.
C8_FailFast ==
    \A k \in 1..Len(ops) :
        ~ops[k].ok =>
            /\ k = Len(ops)
            /\ pc = "done"
            /\ stream \in {"none", "dropped"}
            /\ result = Err(KindOf(ops[k].op), 0)
            /\ result.samples = << >>

\* C8 witness: a send failed after the first note was captured with
\* samples.
C8_Witness ==
    /\ pc = "done"
    /\ result = Err("MidiSend", 0)
    /\ Len(note_buffers) >= 1
    /\ note_buffers[1] /= << >>

\* The controller's device and connection operations, without its sleeps.
ExternalOps == SelectSeq(ops, LAMBDA o : o.op /= "sleep")

\* Name and note of an operation.
Shape(o) ==
    << o.op, IF o.op \in {"note_on", "note_off"} THEN o.msg[2] ELSE -1 >>

\* The k-th operation of a run over ns in which nothing fails.
ExpectedShape(ns, k) ==
    IF k = 1 THEN << "build", -1 >>
    ELSE LET j == k - 2
             n == ns[(j \div 4) + 1]
         IN  CASE j % 4 = 0 -> << "note_on", n >>
               [] j % 4 = 1 -> << "play", -1 >>
               [] j % 4 = 2 -> << "note_off", n >>
               [] OTHER     -> << "pause", -1 >>

\* C9: while no step has failed, the operations issued so far are the
\* first ones of: build, then for each note in list order note-on(n), play,
\* note-off(n), pause; a successful run has issued all 1 + 4k of them.
C9_OperationOrder ==
    (pc \in RunPcs /\ \A k \in 1..Len(ops) : ops[k].ok) =>
        /\ Len(ExternalOps) <= 1 + 4 * Len(notes)
        /\ \A k \in 1..Len(ExternalOps) :
               Shape(ExternalOps[k]) = ExpectedShape(notes, k)
        /\ (pc = "done" /\ result.tag = "Ok")
              => Len(ExternalOps) = 1 + 4 * Len(notes)

\* C9 witness: a successful run over two different notes.
C9_Witness ==
    /\ pc = "done" /\ result.tag = "Ok"
    /\ Len(notes) = 2
    /\ notes[1] /= notes[2]

\* Every sample the callback has appended so far is still in a drained
\* sequence or in the buffer: none was appended between a swap and the
\* next clear.
NothingDiscarded ==
    total_num_samples = Len(Flatten(note_buffers)) + Len(buffer)

\* C10: in every note's window (nothing having been appended outside the
\* windows), a batch the callback works through while the stream plays is
\* appended to the buffer up to the point where the buffer itself holds
\* num_samples() samples; samples are dropped only from there on.
C10_CapPerNote ==
    [][ (cbpc = "locked" /\ cbpc' = "idle" /\ stream = "playing"
           /\ NothingDiscarded)
        => LET room == max_size - Len(buffer)
               take == IF Len(cbBatch) < room THEN Len(cbBatch) ELSE room
           IN  buffer' = buffer \o SubSeq(cbBatch, 1, take) ]_vars

\* The samples appended between the clear and the swap of iteration i, in
\* append order.
WindowSamples(i) ==
    LET es == SelectSeq(appended, LAMBDA e : e.note = i /\ e.within)
    IN  [k \in 1..Len(es) |-> es[k].s]

\* The samples of a sequence, as a set.
Range(s) == {s[k] : k \in 1..Len(s)}

\* C11: the sequence drained, and returned, for note i holds exactly the
\* samples appended after the clear of iteration i and before its swap, in
\* append order; a sample appended outside these windows (after the swap of
\* one iteration and before the clear of the next) is in no sequence.
C11_WindowAttribution ==
    pc \in RunPcs =>
        /\ \A i \in 1..Len(note_buffers) : note_buffers[i] = WindowSamples(i)
        /\ \A i \in 1..Len(result.samples) :
               result.samples[i] = WindowSamples(i)
        /\ \A k \in 1..Len(appended) :
               ~appended[k].within =>
                   \A i \in 1..Len(note_buffers) :
                       appended[k].s \notin Range(note_buffers[i])

\* C11 witness: a successful run that returned samples, in which a sample
\* was appended after one note's swap and before the next note's clear.
C11_Witness ==
    /\ pc = "done" /\ result.tag = "Ok"
    /\ \E k \in 1..Len(appended) : ~appended[k].within /\ appended[k].note > 1
    /\ \E i \in 1..Len(result.samples) : result.samples[i] /= << >>

\* C12 as stated: the slot keeps the first error reported in the run; later
\* errors do not replace it.
C12_FirstErrorWins ==
    (pc \in RunPcs /\ reported >= 1) => error = 1

\* C12 amended: the slot is overwritten by every invocation of the error
\* callback, so it holds the error reported last: the one the controller
\* finds at its check is the most recent one.
C12_LastErrorWins ==
    pc \in RunPcs => error = reported

\* C12 witness: two errors were reported before the controller's check and
\* the slot holds the second.
C12_Witness ==
    /\ pc = "check"
    /\ reported = 2
    /\ error = 2

\* The controller is at one of its sleeps.
Sleeping == pc \in {"sleep_on", "sleep_release", "sleep_between"}

\* C13: the controller never holds the buffer mutex while it sleeps
\* (time_on, time_release or time_between), so no callback invocation waits
\* for the mutex through a sleep.
C13_NoLockWhileSleeping ==
    Sleeping => /\ bufLock /= "ctl"
                /\ ~(cbpc = "wait" /\ bufLock = "ctl")

IsBetweenSleep(o) == o.op = "sleep" /\ o.msg = << "time_between" >>

\* The inter-note sleeps the controller has taken so far.
BetweenSleeps == Len(SelectSeq(ops, IsBetweenSleep))

\* C14: every drain is followed by a sleep of time_between, the last one
\* included: the sleeps taken are as many as the drains done (one less while
\* the sleep after a drain is still to come), a successful run over k notes
\* has taken exactly k of them, and for k > 0 the last one is the last thing
\* it did before returning.
C14_SleepAfterEveryDrain ==
    pc \in RunPcs =>
        /\ BetweenSleeps =
              Len(note_buffers) - (IF pc = "sleep_between" THEN 1 ELSE 0)
        /\ (pc = "done" /\ result.tag = "Ok") =>
              /\ BetweenSleeps = Len(notes)
              /\ Len(notes) > 0 => IsBetweenSleep(ops[Len(ops)])

\* C14 witness: a successful run over two notes or more.
C14_Witness ==
    /\ pc = "done" /\ result.tag = "Ok"
    /\ Len(notes) >= 2
    /\ BetweenSleeps = Len(notes)

\* The notes first + j * spacing (j = 0, 1, ...) up to last, then last
\* unless it is the last of them.
Reference(first, last, spacing) ==
    LET cnt    == ((last - first) \div spacing) + 1
        stride == [j \in 1..cnt |-> first + (j - 1) * spacing]
    IN  IF stride[cnt] = last THEN stride ELSE Append(stride, last)

\* C15: for first_note <= last_note and note_spacing >= 1 the derived list
\* is the reference sequence, strictly increasing; for 21, 108 and spacing
\* 12 it is [21, 33, 45, 57, 69, 81, 93, 105, 108].
C15_DerivedIsReference ==
    (nstate /= "input" /\ nfirst <= nlast /\ nspacing >= 1) =>
        /\ nstate = "derived"
        /\ nout = Reference(nfirst, nlast, nspacing)
        /\ StrictlyIncreasing(nout)
        /\ (nfirst = 21 /\ nlast = 108 /\ nspacing = 12) =>
              nout = << 21, 33, 45, 57, 69, 81, 93, 105, 108 >>

\* C15 witness: the derivation for 21, 108 and spacing 12.
C15_Witness ==
    /\ nstate = "derived"
    /\ nfirst = 21 /\ nlast = 108 /\ nspacing = 12
    /\ Len(nout) = 9

\* C16: the note-on message is [0x90 + channel mod 16, note, velocity] and
\* the note-off message [0x80 + channel mod 16, note, velocity], so the
\* status byte lies in 0x90..0x9F or 0x80..0x8F and depends on the low four
\* bits of the channel only, and note and velocity pass through unmasked;
\* the messages of an iteration carry the settings' midi_channel, the
\* note, and note_on_velocity and note_off_velocity respectively.
C16_MessageBytes ==
    mstate = "sent" =>
        /\ mout[1] = << 144 + (settings.midi_channel % 16), mnote,
                        settings.note_on_velocity >>
        /\ mout[2] = << 128 + (settings.midi_channel % 16), mnote,
                        settings.note_off_velocity >>
        /\ mout[1][1] \in 144..159
        /\ mout[2][1] \in 128..143

\* C16 witness: messages for a channel with bits above the low four, a note
\* above 127 and different on and off velocities.
C16_Witness ==
    /\ mstate = "sent"
    /\ settings.midi_channel = 240
    /\ mnote = 255
    /\ settings.note_on_velocity = 128
    /\ settings.note_off_velocity = 0
    /\ mout = << << 144, 255, 128 >>, << 128, 255, 0 >> >>

\* C17: a capture run that has entered capture_note_list ends by returning
\* the successful result or a CaptureError, and in no other way.
C17_EndsWithResultOrError ==
    (pc = "done" /\ ops /= << >>) => result.tag \in {"Ok", "Err"}

\* The scheduling C17 assumes: every device and connection call returns,
\* the controller keeps running, and a callback invocation that can take
\* the mutex, or holds it, goes on.
FairSpec ==
    /\ Spec
    /\ WF_vars(build_stream) /\ WF_vars(loop_done) /\ WF_vars(clear_buffer)
    /\ WF_vars(note_on) /\ WF_vars(play) /\ WF_vars(sleep_on)
    /\ WF_vars(note_off) /\ WF_vars(sleep_release) /\ WF_vars(pause)
    /\ WF_vars(check_error) /\ WF_vars(swap_out) /\ WF_vars(sleep_between)
    /\ WF_vars(data_callback_lock) /\ WF_vars(data_callback_run)

\* The termination half of C17: under FairSpec a run that has started
\* always ends (by a result, an error or a panic).
RunEnds == (pc = "build") ~> (pc = "done")

FromErrorSlot(r) ==
    \/ r.tag = "Err" /\ r.kind = "Stream"
    \/ r.tag = "Panic" /\ r.kind = "should be no lock"

\* C19: the controller's course depends on the error slot at the check
\* after a note's pause and nowhere else.  The check goes on to the drain
\* exactly when the slot is empty; no other step ends the run with an
\* outcome taken from the slot; the drain and the inter-note sleep go on
\* whatever the slot holds, and the end of the loop returns the successful
\* result with one entry per note.
C19_SlotReadOnlyAtCheck ==
    [][ /\ (pc = "check" /\ pc' /= "check") =>
              /\ (error = 0) <=> (pc' = "swap")
              /\ (error /= 0) <=> (pc' = "done" /\ FromErrorSlot(result'))
        /\ (pc \in RunPcs \ {"check", "done"} /\ pc' = "done") =>
              ~FromErrorSlot(result')
        /\ (pc = "swap" /\ pc' /= "swap") => pc' = "sleep_between"
        /\ (pc = "sleep_between" /\ pc' /= "sleep_between") => pc' = "clear"
        /\ (pc = "clear" /\ idx > Len(notes) /\ pc' /= "clear") =>
              /\ pc' = "done"
              /\ result' = Ok(note_buffers)
              /\ Len(note_buffers) = Len(notes)
      ]_vars

\* C19 witness: a stream error stored after the last note's check is in
\* the slot when the run returns the successful result with every entry.
C19_Witness ==
    /\ pc = "done" /\ result.tag = "Ok"
    /\ error /= 0
    /\ Len(notes) >= 1
    /\ Len(result.samples) = Len(notes)

====
